---- MODULE Spec2Model ----
(***************************************************************************)
(* Model of the P2P signaling server of backend/flask_app.py: the rooms,   *)
(* participants and signals tables of the SQLite store and the seven HTTP  *)
(* handlers that read and write them.                                      *)
(*                                                                         *)
(* Python's sqlite3 module opens a transaction only in front of INSERT /   *)
(* UPDATE / DELETE, so a SELECT is a read of the committed store on its    *)
(* own and the write statements up to db.commit() are one atomic write     *)
(* transaction.  An action is one such unit: create_room, heartbeat,       *)
(* list_participants and close_room are one action each; join_room,        *)
(* send_signal and get_signals are two, and the steps of other requests    *)
(* and the clock may come between the two.                                 *)
(*                                                                         *)
(* Timestamps are whole seconds (CURRENT_TIMESTAMP and datetime('now')     *)
(* have one-second resolution); both produce the same text format, so the  *)
(* text comparison of the SQL is the comparison of the numbers.            *)
(* rooms.created_at is written and never read by any handler; it is left   *)
(* out of the room rows.                                                   *)
(***************************************************************************)
EXTENDS Integers, Sequences, FiniteSets, TLC

VARIABLES rooms, participants, signals, seq, now, ticks,
          inflight, resp, log, delivered, purged, issued

vars == <<rooms, participants, signals, seq, now, ticks,
          inflight, resp, log, delivered, purged, issued>>

(* ------------------------------ bounds --------------------------------- *)

MaxSignals == 2

MaxTicks == 2

Devices == {"d1", "d2"}

Senders == {"d1"}

RoomIds == {"000000", "000001"}

Types == {"offer"}

Payloads == {"sdp"}

Procs == {1, 2}

(* an absent JSON field / query parameter (data.get returns None) *)
Missing == "<none>"

(* the empty string: a value that is present and falsy.  The handlers that
   test `not device_id` refuse it as they refuse every falsy JSON value;
   send_signal, which tests `is None`, takes it as a device name. *)
Empty == ""

(* -------------------------- program constants -------------------------- *)

SignalRetention == 600

ParticipantAbandon == 3600

LivenessWindow == 30

(* ------------------------------ helpers -------------------------------- *)

(* the test `not device_id` of create_room, join_room, get_signals and
   heartbeat *)
Falsy(value) == value \in {Missing, Empty}

JsonDumps(payload) == <<"json", payload>>

JsonLoads(text) == text[2]

(* rows of the signals table in rowid order, the order of a table scan *)
RECURSIVE Scan(_)
Scan(sigs) ==
    IF sigs = {} THEN <<>>
    ELSE LET r == CHOOSE x \in sigs : \A y \in sigs : x.id <= y.id
         IN  <<r>> \o Scan(sigs \ {r})

(* a sorter that puts a row in front of the rows with an equal key *)
RECURSIVE SorterInsertUnstable(_, _)
SorterInsertUnstable(sorted, row) ==
    IF sorted = <<>> THEN <<row>>
    ELSE IF row.created_at <= Head(sorted).created_at
         THEN <<row>> \o sorted
         ELSE <<Head(sorted)>> \o SorterInsertUnstable(Tail(sorted), row)

(* the sorter keeps rows with equal keys in the order they were inserted *)
RECURSIVE SorterInsert(_, _)
SorterInsert(sorted, row) ==
    IF sorted = <<>> THEN <<row>>
    ELSE IF row.created_at < Head(sorted).created_at
         THEN <<row>> \o sorted
         ELSE <<Head(sorted)>> \o SorterInsert(Tail(sorted), row)

RECURSIVE SorterSort(_)
SorterSort(rows) ==
    IF rows = <<>> THEN <<>>
    ELSE SorterInsert(SorterSort(SubSeq(rows, 1, Len(rows) - 1)), rows[Len(rows)])

(* a WHERE clause that forgets the room *)
MatchesAnyRoom(row, room_id, device_id) == row.to_device = device_id

Matches(row, room_id, device_id) ==
    row.room_id = room_id /\ row.to_device = device_id

(* SELECT id, from_device, type, payload FROM signals
   WHERE room_id = ? AND to_device = ? ORDER BY created_at ASC *)
SelectRows(sigs, room_id, device_id) ==
    SorterSort(SelectSeq(Scan(sigs), LAMBDA row : Matches(row, room_id, device_id)))

Message(row) ==
    [from |-> row.from_device, type |-> row.type, payload |-> JsonLoads(row.payload)]

Messages(rows) == [i \in 1..Len(rows) |-> Message(rows[i])]

(* a loop that misses the id of the last row *)
IdsToDeleteButLast(rows) == [i \in 1..(Len(rows) - 1) |-> rows[i].id]

IdsToDelete(rows) == [i \in 1..Len(rows) |-> rows[i].id]

Range(s) == {s[i] : i \in 1..Len(s)}

(* a delete of the whole mailbox of the recipient instead of the ids read *)
DeleteFetchedByRecipient(sigs, room_id, device_id, ids_to_delete) ==
    {row \in sigs : ~(row.room_id = room_id /\ row.to_device = device_id)}

(* a delete that binds only the first id *)
DeleteFetchedFirstOnly(sigs, room_id, device_id, ids_to_delete) ==
    {row \in sigs : ids_to_delete = <<>> \/ row.id # ids_to_delete[1]}

(* DELETE FROM signals WHERE id IN (?, ?, ...), skipped for an empty list *)
DeleteFetched(sigs, room_id, device_id, ids_to_delete) ==
    {row \in sigs : row.id \notin Range(ids_to_delete)}

(* a retention test that compares with <= *)
StaleSignalsInclusive(sigs, t) == {row \in sigs : row.created_at <= t - SignalRetention}

(* DELETE FROM signals WHERE created_at < datetime('now', '-10 minutes') *)
StaleSignals(sigs, t) == {row \in sigs : row.created_at < t - SignalRetention}

(* DELETE FROM participants WHERE last_seen < datetime('now', '-1 hour') *)
StaleParticipants(parts, t) ==
    {k \in DOMAIN parts : parts[k].last_seen < t - ParticipantAbandon}

Restrict(f, S) == [k \in S |-> f[k]]

IdleProc == [pc |-> "idle"]

(* ------------------------------- state --------------------------------- *)

Init ==
    /\ rooms = <<>>
    /\ participants = <<>>
    /\ signals = {}
    /\ seq = 0
    /\ now = 0
    /\ ticks = 0
    /\ inflight = [p \in Procs |-> IdleProc]
    /\ resp = [op |-> "none"]
    /\ log = <<>>
    /\ delivered = <<>>
    /\ purged = {}
    /\ issued = [r \in RoomIds |-> 0]

(* the wall clock advances between requests *)
Tick(dt) ==
    /\ ticks < MaxTicks
    /\ now' = now + dt
    /\ ticks' = ticks + 1
    /\ UNCHANGED <<rooms, participants, signals, seq, inflight, resp, log,
                   delivered, purged, issued>>

(* a sweep without its try/except: the failure reaches the caller *)
clean_stale_data_raises(outcome, sigs, parts, t_signals, t_participants) ==
    IF outcome = "done"
    THEN [raised |-> FALSE,
          signals |-> sigs \ StaleSignals(sigs, t_signals),
          participants |-> Restrict(parts, DOMAIN parts
                                             \ StaleParticipants(parts, t_participants))]
    ELSE [raised |-> TRUE, signals |-> sigs, participants |-> parts]

(* clean_stale_data: the two DELETEs and the commit inside try/except.  Each
   DELETE reads the clock for itself: t_signals at line 98, t_participants at
   line 101.  When the store fails (outcome "failed") the exception is caught
   and printed; nothing of the sweep was committed, and what was pending is
   discarded when close_connection closes the connection. *)
clean_stale_data(outcome, sigs, parts, t_signals, t_participants) ==
    IF outcome = "done"
    THEN [raised |-> FALSE,
          signals |-> sigs \ StaleSignals(sigs, t_signals),
          participants |-> Restrict(parts, DOMAIN parts
                                             \ StaleParticipants(parts, t_participants))]
    ELSE [raised |-> FALSE, signals |-> sigs, participants |-> parts]

(* what uuid.uuid4().int % 10 == 0 decides for one Send *)
Draws == {"skip", "sweep"}

(* how a sweep ends: at its commit, or with an exception of the store *)
Outcomes == {"done", "failed"}

(* POST /rooms/<room_id>/signal up to the draw: the validation, the INSERT and
   its commit.  Without a sweep the request answers here; with one it goes on
   in SendSweep. *)
SendInsert(p, room_id, from_dev, to_dev, s_type, payload, draw) ==
    /\ inflight[p].pc = "idle"
    /\ IF Missing \in {from_dev, to_dev, s_type, payload}
       THEN /\ resp' = [op |-> "send", room_id |-> room_id, code |-> 400]
            /\ UNCHANGED <<signals, seq, log, delivered, inflight>>
       ELSE /\ seq < MaxSignals
            /\ signals' = signals \cup
                              {[id |-> seq + 1, room_id |-> room_id,
                                from_device |-> from_dev, to_device |-> to_dev,
                                type |-> s_type, payload |-> JsonDumps(payload),
                                created_at |-> now]}
            /\ seq' = seq + 1
            /\ log' = Append(log, [id |-> seq + 1, room_id |-> room_id,
                                   from_device |-> from_dev, to_device |-> to_dev,
                                   type |-> s_type, payload |-> JsonDumps(payload),
                                   created_at |-> now])
            /\ delivered' = Append(delivered, 0)
            /\ IF draw = "skip"
               THEN /\ resp' = [op |-> "send", room_id |-> room_id, code |-> 201,
                                sweep |-> "skip", id |-> seq + 1]
                    /\ UNCHANGED inflight
               ELSE /\ inflight' = [inflight EXCEPT ![p] =
                                      [pc |-> "inserted", room_id |-> room_id,
                                       id |-> seq + 1]]
                    /\ UNCHANGED resp
    /\ UNCHANGED <<rooms, participants, now, ticks, purged, issued>>

(* the seconds that may pass between the two DELETEs of one sweep *)
SweepSeconds == {0, 1}

(* the rest of a Send whose draw asked for the sweep: clean_stale_data on the
   store and the clock as they are by now, dt seconds passing between its
   first DELETE and its second, then the response *)
SendSweep(p, outcome, dt) ==
    /\ inflight[p].pc = "inserted"
    /\ IF dt = 0
       THEN UNCHANGED <<now, ticks>>
       ELSE /\ ticks < MaxTicks
            /\ now' = now + dt
            /\ ticks' = ticks + 1
    /\ LET swept == clean_stale_data(outcome, signals, participants, now, now + dt)
       IN  /\ signals' = swept.signals
           /\ participants' = swept.participants
           /\ purged' = purged \cup {row.id : row \in signals \ swept.signals}
           /\ resp' = [op |-> "send", room_id |-> inflight[p].room_id,
                       code |-> IF swept.raised THEN 500 ELSE 201,
                       sweep |-> outcome, id |-> inflight[p].id]
    /\ inflight' = [inflight EXCEPT ![p] = IdleProc]
    /\ UNCHANGED <<rooms, seq, log, delivered, issued>>

(* rooms.room_id is the primary key; (device_id, room_id) is the primary key
   of participants *)
RoomRow(host_id) == [host_id |-> host_id, status |-> "open"]

ParticipantRow(role, t) == [role |-> role, last_seen |-> t]

Put(f, k, v) == [x \in DOMAIN f \cup {k} |-> IF x = k THEN v ELSE f[x]]

(* a room lookup that forgets the status *)
OpenRoomAnyStatus(rms, room_id) == room_id \in DOMAIN rms

(* SELECT * FROM rooms WHERE room_id = ? AND status = 'open' *)
OpenRoom(rms, room_id) ==
    room_id \in DOMAIN rms /\ rms[room_id].status = "open"

(* INSERT OR REPLACE INTO participants (device_id, room_id, role, last_seen)
   VALUES (?, ?, 'peer', datetime('now')) *)
UpsertPeer(parts, device_id, room_id, t) ==
    Put(parts, <<device_id, room_id>>, ParticipantRow("peer", t))

(* a closure that removes the room row *)
MarkClosedDeletes(rms, room_id) == Restrict(rms, DOMAIN rms \ {room_id})

(* a closure that flips the status of the room *)
MarkClosedToggle(rms, room_id) ==
    [k \in DOMAIN rms |->
        IF k = room_id
        THEN [rms[k] EXCEPT !.status = IF @ = "open" THEN "closed" ELSE "open"]
        ELSE rms[k]]

(* UPDATE rooms SET status = 'closed' WHERE room_id = ? *)
MarkClosed(rms, room_id) ==
    [k \in DOMAIN rms |->
        IF k = room_id THEN [rms[k] EXCEPT !.status = "closed"] ELSE rms[k]]

(* DELETE FROM participants WHERE room_id = ? *)
DropParticipants(parts, room_id) ==
    Restrict(parts, {k \in DOMAIN parts : k[2] # room_id})

(* a closure that leaves the mailboxes of the room behind *)
DropSignalsNone(sigs, room_id) == sigs

(* DELETE FROM signals WHERE room_id = ? *)
DropSignals(sigs, room_id) == {row \in sigs : row.room_id # room_id}

(* a presence query that compares with >= *)
PresentRowsInclusive(parts, room_id, t) ==
    {[device_id |-> k[1], last_seen |-> parts[k].last_seen, role |-> parts[k].role] :
        k \in {x \in DOMAIN parts :
                 x[2] = room_id /\ parts[x].last_seen >= t - LivenessWindow}}

(* SELECT device_id, last_seen, role FROM participants
   WHERE room_id = ? AND last_seen > datetime('now', '-30 seconds') *)
PresentRows(parts, room_id, t) ==
    {[device_id |-> k[1], last_seen |-> parts[k].last_seen, role |-> parts[k].role] :
        k \in {x \in DOMAIN parts :
                 x[2] = room_id /\ parts[x].last_seen > t - LivenessWindow}}

(* a room insert written as INSERT OR REPLACE: a colliding id overwrites *)
CreateRoomTxnReplace(rms, parts, host_id, room_id, t) ==
    [ok |-> TRUE,
     rooms |-> Put(rms, room_id, RoomRow(host_id)),
     participants |-> Put(parts, <<host_id, room_id>>, ParticipantRow("host", t))]

(* a handler that catches the failure of the room insert alone and goes on
   to register and commit the host *)
CreateRoomTxnPartial(rms, parts, host_id, room_id, t) ==
    IF room_id \in DOMAIN rms
    THEN [ok |-> FALSE, rooms |-> rms,
          participants |-> Put(parts, <<host_id, room_id>>, ParticipantRow("host", t))]
    ELSE [ok |-> TRUE,
          rooms |-> Put(rms, room_id, RoomRow(host_id)),
          participants |-> Put(parts, <<host_id, room_id>>, ParticipantRow("host", t))]

(* the try block of create_room: INSERT INTO rooms, INSERT INTO participants,
   commit.  Either INSERT raises on its primary key; the handler then returns
   without committing and close_connection closes the connection, which rolls
   the pending room insert back.  The result is the committed store. *)
CreateRoomTxn(rms, parts, host_id, room_id, t) ==
    IF room_id \in DOMAIN rms
    THEN [ok |-> FALSE, rooms |-> rms, participants |-> parts]
    ELSE IF <<host_id, room_id>> \in DOMAIN parts
         THEN [ok |-> FALSE, rooms |-> rms, participants |-> parts]
         ELSE [ok |-> TRUE,
               rooms |-> Put(rms, room_id, RoomRow(host_id)),
               participants |-> Put(parts, <<host_id, room_id>>,
                                    ParticipantRow("host", t))]

(* POST /rooms *)
create_room(host_id, room_id) ==
    /\ UNCHANGED <<signals, seq, now, ticks, inflight, log, delivered, purged>>
    /\ IF Falsy(host_id)
       THEN /\ resp' = [op |-> "create", code |-> 400]
            /\ UNCHANGED <<rooms, participants, issued>>
       ELSE LET txn == CreateRoomTxn(rooms, participants, host_id, room_id, now)
            IN  /\ rooms' = txn.rooms
                /\ participants' = txn.participants
                /\ IF txn.ok
                   THEN /\ resp' = [op |-> "create", code |-> 201,
                                    room_id |-> room_id,
                                    token |-> <<"host", host_id, room_id>>]
                        /\ issued' = [issued EXCEPT ![room_id] = @ + 1]
                   ELSE /\ resp' = [op |-> "create", code |-> 500]
                        /\ UNCHANGED issued

(* a heartbeat written as an upsert: it registers an unknown device *)
TouchParticipantUpsert(parts, room_id, device_id, t) ==
    IF <<device_id, room_id>> \in DOMAIN parts
    THEN [parts EXCEPT ![<<device_id, room_id>>].last_seen = t]
    ELSE Put(parts, <<device_id, room_id>>, ParticipantRow("peer", t))

(* UPDATE participants SET last_seen = datetime('now')
   WHERE room_id = ? AND device_id = ? *)
TouchParticipant(parts, room_id, device_id, t) ==
    [k \in DOMAIN parts |->
        IF k = <<device_id, room_id>>
        THEN [parts[k] EXCEPT !.last_seen = t]
        ELSE parts[k]]

(* POST /rooms/<room_id>/heartbeat *)
heartbeat(room_id, device_id) ==
    /\ UNCHANGED <<rooms, signals, seq, now, ticks, inflight, log, delivered,
                   purged, issued>>
    /\ IF Falsy(device_id)
       THEN /\ resp' = [op |-> "heartbeat", room_id |-> room_id,
                        device_id |-> device_id, code |-> 400]
            /\ UNCHANGED participants
       ELSE /\ participants' = TouchParticipant(participants, room_id, device_id, now)
            /\ resp' = [op |-> "heartbeat", room_id |-> room_id,
                        device_id |-> device_id, code |-> 200]

(* GET /rooms/<room_id>/participants *)
list_participants(room_id) ==
    /\ resp' = [op |-> "list", room_id |-> room_id, code |-> 200,
                body |-> PresentRows(participants, room_id, now)]
    /\ UNCHANGED <<rooms, participants, signals, seq, now, ticks, inflight, log,
                   delivered, purged, issued>>

(* POST /rooms/<room_id>/close.  The field sent of the response record notes
   how many signals had been sent by then, the field again that the latest
   response before it was the one of a close of the same room with no signal
   sent since. *)
close_room(room_id) ==
    /\ rooms' = MarkClosed(rooms, room_id)
    /\ participants' = DropParticipants(participants, room_id)
    /\ signals' = DropSignals(signals, room_id)
    /\ purged' = purged \cup {row.id : row \in signals \ DropSignals(signals, room_id)}
    /\ resp' = [op |-> "close", room_id |-> room_id, code |-> 200,
                sent |-> seq,
                again |-> ( /\ resp.op = "close" /\ resp.room_id = room_id
                            /\ resp.sent = seq )]
    /\ UNCHANGED <<seq, now, ticks, inflight, log, delivered, issued>>

(* GET /rooms/<room_id>/signal up to fetchall(): the validation and the
   SELECT.  With no row there is no DELETE and the request answers here; with
   rows it goes on in FetchDelete.  The field upto notes how many signals had
   been sent when the SELECT ran. *)
FetchSelect(p, room_id, device_id) ==
    /\ inflight[p].pc = "idle"
    /\ IF Falsy(device_id)
       THEN /\ resp' = [op |-> "fetch", room_id |-> room_id,
                        device_id |-> device_id, code |-> 400]
            /\ UNCHANGED inflight
       ELSE IF SelectRows(signals, room_id, device_id) = <<>>
            THEN /\ resp' = [op |-> "fetch", room_id |-> room_id,
                             device_id |-> device_id, code |-> 200,
                             body |-> <<>>, ids |-> <<>>, upto |-> seq]
                 /\ UNCHANGED inflight
            ELSE /\ inflight' = [inflight EXCEPT ![p] =
                                   [pc |-> "selected", room_id |-> room_id,
                                    device_id |-> device_id,
                                    rows |-> SelectRows(signals, room_id, device_id),
                                    upto |-> seq]]
                 /\ UNCHANGED resp
    /\ UNCHANGED <<rooms, participants, signals, seq, now, ticks, log, delivered,
                   purged, issued>>

(* the rest of a Fetch that read rows: the DELETE ... IN (ids) with its
   commit, then the response *)
FetchDelete(p) ==
    /\ inflight[p].pc = "selected"
    /\ LET rows == inflight[p].rows
           ids_to_delete == IdsToDelete(rows)
       IN  /\ signals' = DeleteFetched(signals, inflight[p].room_id,
                                       inflight[p].device_id, ids_to_delete)
           /\ delivered' = [i \in DOMAIN delivered |->
                              IF i \in Range(ids_to_delete)
                              THEN delivered[i] + 1 ELSE delivered[i]]
           /\ resp' = [op |-> "fetch", room_id |-> inflight[p].room_id,
                       device_id |-> inflight[p].device_id, code |-> 200,
                       body |-> Messages(rows), ids |-> ids_to_delete,
                       upto |-> inflight[p].upto]
    /\ inflight' = [inflight EXCEPT ![p] = IdleProc]
    /\ UNCHANGED <<rooms, participants, seq, now, ticks, log, purged, issued>>

(* POST /rooms/<room_id>/join up to the room lookup: the validation and the
   SELECT of the open room.  Without such a room the request answers here;
   with one it goes on in JoinUpsert. *)
JoinCheck(p, room_id, device_id) ==
    /\ inflight[p].pc = "idle"
    /\ IF Falsy(device_id)
       THEN /\ resp' = [op |-> "join", room_id |-> room_id,
                        device_id |-> device_id, code |-> 400]
            /\ UNCHANGED inflight
       ELSE IF ~OpenRoom(rooms, room_id)
            THEN /\ resp' = [op |-> "join", room_id |-> room_id,
                             device_id |-> device_id, code |-> 404]
                 /\ UNCHANGED inflight
            ELSE /\ inflight' = [inflight EXCEPT ![p] =
                                   [pc |-> "checked", room_id |-> room_id,
                                    device_id |-> device_id,
                                    host_id |-> rooms[room_id].host_id]]
                 /\ UNCHANGED resp
    /\ UNCHANGED <<rooms, participants, signals, seq, now, ticks, log, delivered,
                   purged, issued>>

(* the rest of a join that found the room open: the INSERT OR REPLACE with
   its commit, then the response *)
JoinUpsert(p) ==
    /\ inflight[p].pc = "checked"
    /\ participants' = UpsertPeer(participants, inflight[p].device_id,
                                  inflight[p].room_id, now)
    /\ resp' = [op |-> "join", room_id |-> inflight[p].room_id,
                device_id |-> inflight[p].device_id, code |-> 200,
                token |-> <<"peer", inflight[p].device_id, inflight[p].room_id>>,
                host_id |-> inflight[p].host_id]
    /\ inflight' = [inflight EXCEPT ![p] = IdleProc]
    /\ UNCHANGED <<rooms, signals, seq, now, ticks, log, delivered, purged,
                   issued>>

(* ---------------------------- specifications --------------------------- *)

DeviceArgs == Devices \cup {Missing, Empty}

(* the requests of one handler, served by the workers P for the rooms R with
   devices from A; D holds the seconds that may pass inside a sweep *)
join_room(P, R, A) ==
    \/ \E p \in P, r \in R, d \in A : JoinCheck(p, r, d)
    \/ \E p \in P : JoinUpsert(p)

send_signal(P, R, A, D) ==
    \/ \E p \in P, r \in R, f \in Senders, t \in A, ty \in Types,
          pl \in Payloads, draw \in Draws : SendInsert(p, r, f, t, ty, pl, draw)
    \/ \E p \in P, outcome \in Outcomes, dt \in D : SendSweep(p, outcome, dt)

get_signals(P, R, A) ==
    \/ \E p \in P, r \in R, d \in A : FetchSelect(p, r, d)
    \/ \E p \in P : FetchDelete(p)

(* the room registry: every handler that reads or writes rooms and
   participants, joins on both workers, within one second of the clock *)
Next ==
    \/ \E h \in DeviceArgs, r \in RoomIds : create_room(h, r)
    \/ join_room(Procs, RoomIds, DeviceArgs)
    \/ \E r \in RoomIds, d \in DeviceArgs : heartbeat(r, d)
    \/ \E r \in RoomIds : list_participants(r)
    \/ \E r \in RoomIds : close_room(r)

Spec == Init /\ [][Next]_vars

(* presence: one host creates rooms and one peer joins them while the clock
   reaches and crosses the liveness window *)
PresenceNext ==
    \/ \E dt \in {1, LivenessWindow} : Tick(dt)
    \/ \E r \in RoomIds : create_room("d1", r)
    \/ join_room({1}, RoomIds, {"d2"})
    \/ \E r \in RoomIds, d \in DeviceArgs : heartbeat(r, d)
    \/ \E r \in RoomIds : list_participants(r)
    \/ \E r \in RoomIds : close_room(r)

PresenceSpec == Init /\ [][PresenceNext]_vars

(* the mailbox of a polling client: one worker serves its fetches one after
   the other while the other serves sends and their sweeps, and the clock
   crosses the retention window *)
MailboxNext ==
    \/ Tick(SignalRetention + 1)
    \/ send_signal({2}, RoomIds, {"d2", Missing}, SweepSeconds)
    \/ get_signals({1}, RoomIds, DeviceArgs)

MailboxSpec == Init /\ [][MailboxNext]_vars

(* the life of one room: it is created, joined, heartbeaten, listed and
   closed while signals are sent to it and fetched from it, before it exists
   and after its closure too, all within one second of the clock *)
CloseNext ==
    \/ \E h \in Devices : create_room(h, "000000")
    \/ join_room({1}, {"000000"}, Devices)
    \/ send_signal({2}, {"000000"}, Devices, {0})
    \/ get_signals({1}, {"000000"}, Devices)
    \/ \E d \in Devices : heartbeat("000000", d)
    \/ list_participants("000000")
    \/ close_room("000000")

CloseSpec == Init /\ [][CloseNext]_vars

(* fetch requests on both workers for either room, their statements
   interleaved with each other and with sends to one room, all within one
   second of the clock *)
RaceNext ==
    \/ send_signal(Procs, {"000000"}, Devices, {0})
    \/ get_signals(Procs, RoomIds, DeviceArgs)

RaceSpec == Init /\ [][RaceNext]_vars

(* the sweep: one host creates rooms and signals are sent to one recipient while the
   clock reaches the retention window and crosses the abandonment window,
   between requests and inside a sweep *)
SweepNext ==
    \/ \E dt \in {SignalRetention, ParticipantAbandon} : Tick(dt)
    \/ \E r \in RoomIds : create_room("d1", r)
    \/ send_signal({1}, RoomIds, {"d2"}, SweepSeconds)

SweepSpec == Init /\ [][SweepNext]_vars

(* ------------------------------- claims -------------------------------- *)

SentTo(i, room_id, device_id) ==
    log[i].room_id = room_id /\ log[i].to_device = device_id

FetchReturned == resp.op = "fetch" /\ resp.code = 200

(* C1: when two Fetch(roomId, D) calls run concurrently, no signal is in the
   results of both calls: across all fetch results every signal id occurs at
   most once. *)
C1_NoSignalInTwoResults == \A i \in DOMAIN delivered : delivered[i] <= 1

(* C2: a Fetch deletes exactly the rows it returned.  Its delete step removes
   the selected ids and nothing else, so a signal for the same recipient that
   a Send inserted after the select is still stored afterwards; and the select
   of any Fetch for that recipient returns every stored signal addressed to
   it, so the next Fetch returns the late signal. *)
C2_FetchDeletesExactlyReturned ==
    [][ /\ \A p \in Procs :
             FetchDelete(p) =>
               LET returned == {inflight[p].rows[i].id : i \in 1..Len(inflight[p].rows)}
               IN  /\ signals' = {row \in signals : row.id \notin returned}
                   /\ \A row \in signals :
                        ( /\ row.room_id = inflight[p].room_id
                          /\ row.to_device = inflight[p].device_id
                          /\ row.id \notin returned ) => row \in signals'
        /\ \A p \in Procs, r \in RoomIds, d \in Devices :
             FetchSelect(p, r, d) =>
               \A row \in signals :
                  (row.room_id = r /\ row.to_device = d) =>
                     \E i \in 1..Len(inflight'[p].rows) : inflight'[p].rows[i] = row
      ]_vars

(* a fetch has answered with some signals while a signal for the same
   recipient, inserted after its select, is still in the store *)
C2_Witness ==
    /\ FetchReturned
    /\ resp.ids # <<>>
    /\ \E row \in signals :
          /\ row.room_id = resp.room_id
          /\ row.to_device = resp.device_id
          /\ \A i \in 1..Len(resp.ids) : row.id > resp.ids[i]

(* C3 as stated: once a Fetch(roomId, D) has answered, every signal that
   had been sent to (roomId, D) when it read the mailbox has appeared in
   exactly one fetch result, and no signal has appeared in two. *)
C3_ExactlyOnce ==
    /\ \A i \in DOMAIN log : delivered[i] <= 1
    /\ FetchReturned =>
          \A i \in DOMAIN log :
             (i <= resp.upto /\ SentTo(i, resp.room_id, resp.device_id)) =>
                delivered[i] = 1

(* C3 amended, for a recipient whose fetches run one after the other: every
   sent signal appears in at most one fetch result; a signal that is gone
   from the store has been in exactly one result unless the eviction sweep
   deleted it; and once a Fetch(roomId, D) has answered, every signal sent
   to (roomId, D) before its select has been in a result or was deleted by
   the sweep. *)
C3_AtMostOnceUnlessEvicted ==
    /\ \A i \in DOMAIN log :
          /\ delivered[i] <= 1
          /\ log[i] \notin signals => (delivered[i] = 1 \/ i \in purged)
    /\ FetchReturned =>
          \A i \in DOMAIN log :
             (i <= resp.upto /\ SentTo(i, resp.room_id, resp.device_id)) =>
                (delivered[i] = 1 \/ i \in purged)

(* a fetch answered after one signal of the recipient was swept and another
   was delivered *)
C3_Witness ==
    /\ FetchReturned
    /\ \E i, j \in DOMAIN log :
          /\ SentTo(i, resp.room_id, resp.device_id)
          /\ SentTo(j, resp.room_id, resp.device_id)
          /\ i \in purged
          /\ delivered[i] = 0
          /\ delivered[j] = 1

(* C4: Fetch returns the signals of one (room, recipient) in the order they
   were sent, also among signals with the same created_at: the returned ids
   (the insertion sequence) are strictly ascending. *)
C4_FetchInSendOrder ==
    FetchReturned =>
       \A i, j \in 1..Len(resp.ids) : i < j => resp.ids[i] < resp.ids[j]

(* a fetch returned two signals that carry the same created_at *)
C4_Witness ==
    /\ FetchReturned
    /\ Len(resp.ids) >= 2
    /\ log[resp.ids[1]].created_at = log[resp.ids[2]].created_at

(* C5: a Fetch(roomId, D) that starts when the latest response was the one
   of a Fetch(roomId, D) and no Send has inserted a signal since that fetch
   ran its select finds no row: it answers at once with an empty list. *)
C5_RepeatedFetchEmpty ==
    [][ \A p \in Procs, r \in RoomIds, d \in Devices :
          ( /\ resp.op = "fetch" /\ resp.code = 200
            /\ resp.room_id = r /\ resp.device_id = d
            /\ resp.upto = seq
            /\ FetchSelect(p, r, d) )
          => /\ inflight' = inflight
             /\ resp'.op = "fetch" /\ resp'.code = 200
             /\ resp'.body = <<>> /\ resp'.ids = <<>>
      ]_vars

(* the latest fetch of a recipient came back empty after an earlier fetch had
   delivered a signal to it *)
C5_Witness ==
    /\ FetchReturned
    /\ resp.ids = <<>>
    /\ resp.upto = seq
    /\ \E i \in DOMAIN log : SentTo(i, resp.room_id, resp.device_id)
    /\ \A i \in DOMAIN log :
          SentTo(i, resp.room_id, resp.device_id) => delivered[i] >= 1

(* C6: Fetch(roomId, D) reads and returns only signals of room roomId
   addressed to D; its select changes no row, and its delete leaves every
   signal of another recipient or another room in the store, and the rooms
   and participants, unchanged. *)
C6_FetchOnlyOwnMailbox ==
    [][ /\ \A p \in Procs, r \in RoomIds, d \in Devices :
             FetchSelect(p, r, d) =>
                /\ UNCHANGED <<rooms, participants, signals>>
                /\ inflight'[p].pc = "selected" =>
                      \A i \in 1..Len(inflight'[p].rows) :
                         /\ inflight'[p].rows[i].room_id = r
                         /\ inflight'[p].rows[i].to_device = d
        /\ \A p \in Procs :
             FetchDelete(p) =>
                /\ \A i \in 1..Len(resp'.ids) :
                      /\ log[resp'.ids[i]].room_id = inflight[p].room_id
                      /\ log[resp'.ids[i]].to_device = inflight[p].device_id
                      /\ resp'.body[i].from = log[resp'.ids[i]].from_device
                /\ {row \in signals' : row.room_id # inflight[p].room_id
                                          \/ row.to_device # inflight[p].device_id}
                     = {row \in signals : row.room_id # inflight[p].room_id
                                           \/ row.to_device # inflight[p].device_id}
                /\ UNCHANGED <<rooms, participants>>
      ]_vars

(* a fetch returned a signal while a signal of another mailbox is stored *)
C6_Witness ==
    /\ FetchReturned
    /\ resp.ids # <<>>
    /\ \E row \in signals :
          row.room_id # resp.room_id \/ row.to_device # resp.device_id

(* C7: JoinRoom on a room id that does not exist or whose room is closed
   answers 404 from its room lookup: it never reaches the upsert and leaves
   the participants table unchanged. *)
C7_JoinGated ==
    [][ \A p \in Procs, r \in RoomIds, d \in Devices :
          ( /\ (r \notin DOMAIN rooms \/ rooms[r].status = "closed")
            /\ JoinCheck(p, r, d) )
          => /\ resp' = [op |-> "join", room_id |-> r, device_id |-> d,
                         code |-> 404]
             /\ inflight' = inflight
             /\ participants' = participants
      ]_vars

(* a join of a closed room was refused *)
C7_Witness ==
    /\ resp.op = "join"
    /\ resp.code = 404
    /\ resp.room_id \in DOMAIN rooms
    /\ rooms[resp.room_id].status = "closed"

(* C8: the role of a participant row never changes while the row exists; a
   JoinRoom of an already registered device leaves its role as it was. *)
C8_RoleImmutable ==
    [][ \A k \in DOMAIN participants :
          k \in DOMAIN participants' =>
             participants'[k].role = participants[k].role
      ]_vars

(* C9: when CloseRoom(r) completes no participant and no signal of r is left,
   also of signals sent before the closure and never fetched, so that a
   ListPresent(r) or a Fetch(r, d) that follows it, no Send having come in
   between, returns empty; and the closed room stays without rows until a
   Send addressed to it is accepted or a join that found it open before the
   closure writes its participant. *)
C9_CloseCascades ==
    [][ \A r \in RoomIds :
          /\ close_room(r) =>
               /\ \A k \in DOMAIN participants' : k[2] # r
               /\ \A row \in signals' : row.room_id # r
               /\ resp'.code = 200
          /\ ( /\ resp.op = "close" /\ resp.room_id = r /\ resp.sent = seq
               /\ list_participants(r) )
               => resp'.body = {}
          /\ \A p \in Procs, d \in Devices :
               ( /\ resp.op = "close" /\ resp.room_id = r /\ resp.sent = seq
                 /\ FetchSelect(p, r, d) )
                  => /\ inflight' = inflight
                     /\ resp'.op = "fetch"
                     /\ resp'.body = <<>>
          /\ ( /\ r \in DOMAIN rooms /\ rooms[r].status = "closed"
               /\ \A k \in DOMAIN participants : k[2] # r
               /\ \A row \in signals : row.room_id # r
               /\ \/ \E k \in DOMAIN participants' : k[2] = r
                  \/ \E row \in signals' : row.room_id = r )
               => \/ seq' = seq + 1 /\ log'[seq'].room_id = r
                  \/ \E p \in Procs :
                        /\ inflight[p].pc = "checked"
                        /\ inflight[p].room_id = r
                        /\ JoinUpsert(p)
      ]_vars

(* a room was just closed while a signal sent to it had never been fetched *)
C9_Witness ==
    /\ resp.op = "close"
    /\ resp.room_id \in DOMAIN rooms
    /\ rooms[resp.room_id].status = "closed"
    /\ \E i \in DOMAIN log :
          /\ log[i].room_id = resp.room_id
          /\ delivered[i] = 0
          /\ i \in purged

(* C10: a Send to a room that is closed or does not exist fails and appends
   no signal row. *)
C10_SendRequiresOpenRoom ==
    [][ \A p \in Procs, r \in RoomIds, f \in Senders, t \in Devices,
           ty \in Types, pl \in Payloads, draw \in Draws :
          ( /\ (r \notin DOMAIN rooms \/ rooms[r].status # "open")
            /\ SendInsert(p, r, f, t, ty, pl, draw) )
          => /\ resp'.op = "send"
             /\ resp'.code \in {403, 404}
             /\ signals' = signals
             /\ seq' = seq
      ]_vars

(* C11: a room row is never removed, its host_id never changes, and its
   status only goes from open to closed: a closed room stays closed. *)
C11_RoomLifecycle ==
    [][ \A r \in DOMAIN rooms :
          /\ r \in DOMAIN rooms'
          /\ rooms'[r].host_id = rooms[r].host_id
          /\ rooms[r].status = "closed" => rooms'[r].status = "closed"
          /\ rooms'[r].status \in {"open", "closed"}
      ]_vars

(* a CreateRoom drew the id of a room that is closed, and was refused *)
C11_Witness ==
    /\ resp.op = "create"
    /\ resp.code = 500
    /\ \E r \in DOMAIN rooms : rooms[r].status = "closed"
    /\ \E r \in DOMAIN rooms : rooms[r].status = "open"

(* C12: the room ids returned by successful CreateRoom calls are pairwise
   distinct: no id has been returned by more than one call. *)
C12_RoomIdsDistinct == \A r \in RoomIds : issued[r] <= 1

(* every id has been returned once and a further CreateRoom, which had to
   collide, was refused *)
C12_Witness ==
    /\ \A r \in RoomIds : issued[r] = 1
    /\ resp.op = "create"
    /\ resp.code = 500

(* C17: CreateRoom commits the room together with the HOST participant of the
   call or commits nothing: a successful call adds exactly the open room and
   the host row and touches no other row; a failed call leaves rooms and
   participants unchanged. *)
C17_CreateAtomic ==
    [][ \A h \in Devices, r \in RoomIds :
          create_room(h, r) =>
             \/ /\ resp'.code = 201
                /\ r \notin DOMAIN rooms
                /\ DOMAIN rooms' = DOMAIN rooms \cup {r}
                /\ rooms'[r] = [host_id |-> h, status |-> "open"]
                /\ \A x \in DOMAIN rooms : rooms'[x] = rooms[x]
                /\ DOMAIN participants' = DOMAIN participants \cup {<<h, r>>}
                /\ participants'[<<h, r>>] = [role |-> "host", last_seen |-> now]
                /\ \A k \in DOMAIN participants \ {<<h, r>>} :
                      participants'[k] = participants[k]
             \/ /\ resp'.code = 500
                /\ rooms' = rooms
                /\ participants' = participants
      ]_vars

(* a CreateRoom failed on an id collision while rooms and participants exist *)
C17_Witness ==
    /\ resp.op = "create"
    /\ resp.code = 500
    /\ rooms # <<>>
    /\ participants # <<>>

(* C13: CloseRoom is idempotent: a CloseRoom(r) that directly follows a
   CloseRoom(r), no signal having been sent since, reports success like the
   first and leaves rooms, participants and signals as the first left them:
   r closed, no row of r. *)
C13_CloseIdempotent ==
    [][ \A r \in RoomIds :
          ( /\ resp.op = "close" /\ resp.room_id = r /\ resp.sent = seq
            /\ close_room(r) ) =>
             /\ resp.code = 200
             /\ resp'.code = 200
             /\ rooms' = rooms
             /\ participants' = participants
             /\ signals' = signals
             /\ r \in DOMAIN rooms => rooms'[r].status = "closed"
             /\ \A k \in DOMAIN participants' : k[2] # r
             /\ \A row \in signals' : row.room_id # r
      ]_vars

(* an existing room whose closure removed a pending signal was closed again *)
C13_Witness ==
    /\ resp.op = "close"
    /\ resp.again
    /\ resp.room_id \in DOMAIN rooms
    /\ rooms[resp.room_id].status = "closed"
    /\ \E i \in purged : log[i].room_id = resp.room_id

(* C14: CloseRoom(r) for a room id r that does not exist reports success and
   leaves every room, participant and signal row unchanged, the signals sent
   with room_id r included. *)
C14_CloseMissingRoomNoOp ==
    [][ \A r \in RoomIds :
          (r \notin DOMAIN rooms /\ close_room(r)) =>
             /\ resp'.code = 200
             /\ rooms' = rooms
             /\ participants' = participants
             /\ signals' = signals
      ]_vars

(* C15: ListPresent(r) returns exactly the participants of r whose last_seen
   is less than the liveness window of 30 seconds before the current time; a
   participant seen 30 seconds ago or earlier is left out although its row
   exists; and ListPresent changes no row. *)
C15_PresenceWindow ==
    [][ \A r \in RoomIds :
          list_participants(r) =>
             /\ resp'.code = 200
             /\ \A k \in DOMAIN participants :
                   k[2] = r =>
                      ( now - participants[k].last_seen < 30
                        <=> [device_id |-> k[1],
                             last_seen |-> participants[k].last_seen,
                             role |-> participants[k].role] \in resp'.body )
             /\ \A x \in resp'.body :
                   /\ <<x.device_id, r>> \in DOMAIN participants
                   /\ participants[<<x.device_id, r>>] =
                         [role |-> x.role, last_seen |-> x.last_seen]
             /\ UNCHANGED <<rooms, participants, signals>>
      ]_vars

(* the list of a room holds a fresh participant and leaves out one whose row
   exists and was last seen a full window ago *)
C15_Witness ==
    /\ resp.op = "list"
    /\ \E k \in DOMAIN participants :
          /\ k[2] = resp.room_id
          /\ now - participants[k].last_seen >= 30
          /\ \A x \in resp.body : x.device_id # k[1]
    /\ \E k \in DOMAIN participants :
          /\ k[2] = resp.room_id
          /\ now - participants[k].last_seen < 30
          /\ \E x \in resp.body : x.device_id = k[1]

(* C19: Heartbeat(roomId, deviceId) answers success and changes nothing but
   the last_seen of the participant row (deviceId, roomId), which becomes the
   current time; without such a row it creates none and leaves the store
   unchanged. *)
C19_HeartbeatFrame ==
    [][ \A r \in RoomIds, d \in Devices :
          heartbeat(r, d) =>
             /\ resp'.code = 200
             /\ DOMAIN participants' = DOMAIN participants
             /\ \A k \in DOMAIN participants :
                   IF k = <<d, r>>
                   THEN participants'[k] =
                           [role |-> participants[k].role, last_seen |-> now]
                   ELSE participants'[k] = participants[k]
             /\ <<d, r>> \notin DOMAIN participants => participants' = participants
             /\ UNCHANGED <<rooms, signals>>
      ]_vars

(* a heartbeat for a pair without a row was acknowledged while the other
   device has a row in that room *)
C19_Witness ==
    /\ resp.op = "heartbeat"
    /\ resp.code = 200
    /\ <<resp.device_id, resp.room_id>> \notin DOMAIN participants
    /\ \E k \in DOMAIN participants : k[2] = resp.room_id

(* C16: a failure of the sweep that a Send runs inline is not propagated:
   the insert of the Send is committed before the sweep starts, the failed
   sweep removes no row, the signal of the Send included, and the Send
   answers 201. *)
C16_SweepFailureSwallowed ==
    [][ /\ \A p \in Procs, r \in RoomIds, f \in Senders, t \in Devices,
              ty \in Types, pl \in Payloads :
             SendInsert(p, r, f, t, ty, pl, "sweep") =>
                /\ inflight'[p] = [pc |-> "inserted", room_id |-> r, id |-> seq + 1]
                /\ \E row \in signals' :
                      /\ row.id = seq + 1
                      /\ row.room_id = r
                      /\ row.to_device = t
                      /\ row.created_at = now
                      /\ signals' = signals \cup {row}
        /\ \A p \in Procs, dt \in SweepSeconds :
             SendSweep(p, "failed", dt) =>
                /\ resp' = [op |-> "send", room_id |-> inflight[p].room_id,
                            code |-> 201, sweep |-> "failed",
                            id |-> inflight[p].id]
                /\ UNCHANGED <<rooms, participants, signals>>
      ]_vars

(* a Send whose sweep failed was acknowledged; its signal is stored, and so
   is an older signal that the sweep would have deleted *)
C16_Witness ==
    /\ resp.op = "send"
    /\ resp.code = 201
    /\ resp.sweep = "failed"
    /\ \E row \in signals : row.id = resp.id
    /\ \E row \in signals : now - row.created_at > 600

(* C20: one run of the sweep deletes exactly the signals created more than 10
   minutes before its first DELETE and the participants last seen more than
   1 hour before its second, and adds or changes no row; rooms are unchanged
   and no removed participant was within the 30 second liveness window. *)
C20_SweepExact ==
    [][ \A p \in Procs, dt \in SweepSeconds :
          SendSweep(p, "done", dt) =>
             /\ \A row \in signals :
                   row \in signals' <=> now - row.created_at <= 600
             /\ \A row \in signals' : row \in signals
             /\ \A k \in DOMAIN participants :
                   k \in DOMAIN participants'
                      <=> (now + dt) - participants[k].last_seen <= 3600
             /\ \A k \in DOMAIN participants' :
                   k \in DOMAIN participants /\ participants'[k] = participants[k]
             /\ \A k \in DOMAIN participants \ DOMAIN participants' :
                   /\ ~(participants[k].last_seen > now - 30)
                   /\ ~(participants[k].last_seen > (now + dt) - 30)
             /\ rooms' = rooms
      ]_vars

(* a sweep has run that removed a signal and the host row of a room and kept
   the participant of another room *)
C20_Witness ==
    /\ resp.op = "send"
    /\ resp.code = 201
    /\ resp.sweep = "done"
    /\ purged # {}
    /\ \E r \in DOMAIN rooms : <<rooms[r].host_id, r>> \notin DOMAIN participants
    /\ participants # <<>>

(* C18: in every reachable state, a JoinRoom interleaved with a CloseRoom
   included, a room whose status is closed has no participant row. *)
C18_ClosedRoomHasNoParticipant ==
    \A r \in DOMAIN rooms :
       rooms[r].status = "closed" => \A k \in DOMAIN participants : k[2] # r

====
